---- MODULE Spec2Model ----
(***************************************************************************)
(* Hybrid retrieval engine of the legion repository: the chunker           *)
(* (chunkText), the embedding client and its worker (getEmbeddings,        *)
(* worker.ts), the hybrid scorer with reranker and result filter (search), *)
(* the index build and its persistence (buildIndex, saveIndex, loadIndex,  *)
(* clearIndex, the KnowledgeManager handlers) and the retrieval step of    *)
(* sendMessage.  Strings are sequences of characters, indices are 0-based   *)
(* as in the source and converted to 1-based only when a sequence is read. *)
(* Scores are exact rationals in lowest terms; floating-point rounding is  *)
(* not modelled.                                                           *)
(***************************************************************************)
EXTENDS Integers, Sequences, FiniteSets, TLC

(***************************************************************************)
(* Bounds                                                                  *)
(***************************************************************************)
MaxTextLen == 4
MaxSize == 3
MaxOverlap == 3
MaxIter == MaxTextLen + 2
MaxCalls == 2
MaxProgress == 1
MaxChunks == 3
MaxTopK == 3
MaxDocs == 2

SPACE == "SP"
NEWLINE == "LF"
Chars == {"a", SPACE, NEWLINE}

VARIABLES
  text, size, overlap,      \* chunkText arguments
  start, end, iters,        \* chunkText loop: cursor, last window end, iterations run
  chunks, cpc,              \* chunkText result so far, control position
  spans,                    \* the slice of text each emitted chunk was trimmed from
  hasWindow,                \* typeof window !== 'undefined'
  worker,                   \* module-level worker handle: "null" or "worker"
  progressPosted,           \* progress messages posted so far
  crashed,                  \* the current worker failed outside its message handler
  instance,                 \* PipelineSingleton.instance !== null in the current worker
  inbox, jobs, outbox,      \* requests posted, handler runs in the worker, replies posted
  calls, listeners, nextId, \* getEmbeddings calls, registered message handlers, ids used
  query, index, topK, threshold, useReranker,  \* search arguments
  spc, scall, results,      \* search: control position, its getEmbeddings call, return value
  stored,                   \* localStorage item 'legion_rag_index'
  kmIndex, bout,            \* KnowledgeManager: its index state, outcome of the last rebuild
  btexts, bi, documents, allChunks,  \* buildIndex: texts, loop index, documents, allChunks
  bpc, bcall,               \* buildIndex: control position, the getEmbeddings call awaited
  lastOp,                   \* the last of saveIndex and clearIndex that returned
  ragMode, mpc,             \* sendMessage: agentConfig.ragMode, control position
  sources, contextString,   \* sendMessage: sources, contextString
  snapshot                  \* the index sendMessage passed to search

chunkVars == <<text, size, overlap, start, end, iters, chunks, cpc, spans>>
workerVars == <<worker, progressPosted, crashed, instance, inbox, jobs, outbox>>
embedVars == <<hasWindow, workerVars, calls, listeners, nextId>>
searchArgs == <<query, index, topK, threshold, useReranker>>
searchVars == <<searchArgs, spc, scall, results>>
buildVars == <<btexts, bi, documents, allChunks, bpc, bcall>>
managerVars == <<kmIndex, bout, lastOp, buildVars>>
messageVars == <<ragMode, mpc, sources, contextString, snapshot>>
indexVars == <<stored, managerVars, messageVars>>
vars == <<chunkVars, embedVars, searchVars, indexVars>>

(***************************************************************************)
(* JavaScript string primitives used by the source                         *)
(***************************************************************************)
Min(a, b) == IF a < b THEN a ELSE b
Max(a, b) == IF a > b THEN a ELSE b

SetMax(S) == CHOOSE x \in S : \A y \in S : y <= x
SetMin(S) == CHOOSE x \in S : \A y \in S : x <= y

\* String.prototype.slice: a negative index counts from the end, both
\* indices are clamped to [0, length].
SliceIndex(i, len) == IF i < 0 THEN Max(len + i, 0) ELSE Min(i, len)

Slice(s, from, to) ==
  LET f == SliceIndex(from, Len(s))
      t == SliceIndex(to, Len(s))
  IN IF f >= t THEN <<>> ELSE SubSeq(s, f + 1, t)

\* String.prototype.lastIndexOf(ch, pos): the last index <= pos (pos clamped
\* to [0, length]) holding ch, or -1.
LastIndexOf(s, ch, pos) ==
  LET p == Min(Max(pos, 0), Len(s) - 1)
      hits == {i \in 0..p : s[i + 1] = ch}
  IN IF hits = {} THEN -1 ELSE SetMax(hits)

IsWhitespace(c) == c \in {SPACE, NEWLINE}

\* String.prototype.trim
Trim(s) ==
  LET keep == {i \in 1..Len(s) : ~IsWhitespace(s[i])}
  IN IF keep = {} THEN <<>> ELSE SubSeq(s, SetMin(keep), SetMax(keep))

countLines(s) == Cardinality({i \in 1..Len(s) : s[i] = NEWLINE})

(***************************************************************************)
(* chunkText                                                               *)
(***************************************************************************)
\* The window end of one iteration: start + size, snapped back to just after
\* the last newline, else the last space, found at or before it.
WindowEnd(t, st, sz) ==
  LET raw == st + sz
      lastNewLine == LastIndexOf(t, NEWLINE, raw)
      lastSpace == LastIndexOf(t, SPACE, raw)
  IN IF raw < Len(t)
       THEN IF lastNewLine > st THEN lastNewLine + 1
            ELSE IF lastSpace > st THEN lastSpace + 1
            ELSE raw
       ELSE raw

\* start = end - overlap; if (start >= end) start = end
NextStart(e, ov) ==
  LET s == e - ov IN IF s >= e THEN e ELSE s

ChunkOfSwappedLines(t, st, e) ==
  [content |-> Trim(Slice(t, st, e)),
   lineStart |-> countLines(Slice(t, 0, e)) + 1,
   lineEnd |-> countLines(Slice(t, 0, st)) + 1]

ChunkOf(t, st, e) ==
  [content |-> Trim(Slice(t, st, e)),
   lineStart |-> countLines(Slice(t, 0, st)) + 1,
   lineEnd |-> countLines(Slice(t, 0, e)) + 1]

Texts == UNION {[1..n -> Chars] : n \in 0..MaxTextLen}

\* chunkText is entered with its arguments
ChunkEntered ==
  /\ text \in Texts
  /\ size \in 1..MaxSize
  /\ overlap \in 0..MaxOverlap
  /\ start = 0
  /\ end = 0
  /\ iters = 0
  /\ chunks = <<>>
  /\ spans = <<>>
  /\ cpc = "loop"

\* no chunkText call is running
ChunkIdle ==
  /\ text = <<>>
  /\ size = 1
  /\ overlap = 0
  /\ start = 0
  /\ end = 0
  /\ iters = 0
  /\ chunks = <<>>
  /\ spans = <<>>
  /\ cpc = "idle"

\* One pass through the body of the while loop.  The loop of a call that
\* never ends is followed for MaxIter iterations.
ChunkIter ==
  /\ cpc = "loop"
  /\ start < Len(text)
  /\ iters < MaxIter
  /\ LET e == WindowEnd(text, start, size)
         c == ChunkOf(text, start, e)
         span == [from |-> SliceIndex(start, Len(text)), to |-> SliceIndex(e, Len(text))]
     IN /\ chunks' = IF Len(c.content) > 0 THEN Append(chunks, c) ELSE chunks
        /\ spans' = IF Len(c.content) > 0 THEN Append(spans, span) ELSE spans
        /\ end' = e
        /\ start' = NextStart(e, overlap)
  /\ iters' = iters + 1
  /\ UNCHANGED <<text, size, overlap, cpc, embedVars, searchVars, indexVars>>

\* The loop condition fails: return chunks.
ChunkReturn ==
  /\ cpc = "loop"
  /\ ~(start < Len(text))
  /\ cpc' = "done"
  /\ UNCHANGED <<text, size, overlap, start, end, iters, chunks, spans, embedVars, searchVars,
                 indexVars>>


(***************************************************************************)
(* Texts, vectors and the embedding backend                                *)
(***************************************************************************)
CAT == <<"c", "a", "t">>
DOG == <<"d", "o", "g">>
CATS == <<"c", "a", "t", "s">>
CAT_DOG == <<"c", "a", "t", SPACE, "d", "o", "g">>
\* a query that repeats a token, and one of which no token survives filtering
CAT_CAT_DOG == CAT \o <<SPACE>> \o CAT_DOG
OF == <<"o", "f">>

\* undefined, for a chunk without an embedding and for a missing output element
NoEmbedding == <<>>

\* The feature-extraction model is external to the repository; the model
\* stands for it by a fixed table from text to a two-dimensional vector.
extractor(t) ==
  IF t = CAT THEN <<1, 0>>
  ELSE IF t = CAT_DOG THEN <<3, 4>>
  ELSE IF t = DOG THEN <<-1, 0>>
  ELSE IF t = OF THEN <<0, 0>>
  ELSE <<0, 1>>

\* output.tolist(): one vector per input, in order
tolist(texts) == [i \in 1..Len(texts) |-> extractor(texts[i])]

(***************************************************************************)
(* getEmbeddings and the worker                                            *)
(***************************************************************************)
CallIds == 1..MaxCalls

\* The runs of the worker's message listener, by request id: where the run
\* stands and the texts of its request.
NoJobs == [i \in CallIds |-> [stage |-> "none", texts |-> <<>>]]

NoCall ==
  [status |-> "none", texts |-> <<>>, posted |-> FALSE,
   result |-> <<>>, error |-> "", by |-> 0, settles |-> 0, progress |-> 0]

\* The message handler getEmbeddings registers for the call with correlation
\* id `id`, run on one message event.  call is the call's promise and its
\* bookkeeping: by is the id carried by the message that settled it, settles
\* the number of times resolve or reject ran, progress the number of
\* onProgress invocations.  remove: the handler unregistered itself.
HandlerIgnoresId(id, msg, call) ==
  IF msg.status = "progress"
    THEN [call |-> [call EXCEPT !.progress = @ + 1], remove |-> FALSE]
  ELSE IF msg.status = "complete"
    THEN [call |-> [call EXCEPT !.status = IF @ = "pending" THEN "resolved" ELSE @,
                                !.result = IF call.status = "pending" THEN msg.output ELSE @,
                                !.by = IF call.status = "pending" THEN msg.id ELSE @,
                                !.settles = @ + 1],
          remove |-> TRUE]
  ELSE [call |-> [call EXCEPT !.status = IF @ = "pending" THEN "rejected" ELSE @,
                              !.error = IF call.status = "pending" THEN msg.error ELSE @,
                              !.by = IF call.status = "pending" THEN msg.id ELSE @,
                              !.settles = @ + 1],
        remove |-> TRUE]

HandlerResolvesOnProgress(id, msg, call) ==
  IF msg.id # id THEN [call |-> call, remove |-> FALSE]
  ELSE IF msg.status \in {"progress", "complete"}
    THEN [call |-> [call EXCEPT !.status = IF @ = "pending" THEN "resolved" ELSE @,
                                !.result = IF call.status = "pending" THEN msg.output ELSE @,
                                !.by = IF call.status = "pending" THEN msg.id ELSE @,
                                !.settles = @ + 1],
          remove |-> TRUE]
  ELSE [call |-> [call EXCEPT !.status = IF @ = "pending" THEN "rejected" ELSE @,
                              !.error = IF call.status = "pending" THEN msg.error ELSE @,
                              !.by = IF call.status = "pending" THEN msg.id ELSE @,
                              !.settles = @ + 1],
        remove |-> TRUE]

HandlerStaysAfterError(id, msg, call) ==
  IF msg.id # id THEN [call |-> call, remove |-> FALSE]
  ELSE IF msg.status = "progress"
    THEN [call |-> [call EXCEPT !.progress = @ + 1], remove |-> FALSE]
  ELSE IF msg.status = "complete"
    THEN [call |-> [call EXCEPT !.status = IF @ = "pending" THEN "resolved" ELSE @,
                                !.result = IF call.status = "pending" THEN msg.output ELSE @,
                                !.by = IF call.status = "pending" THEN msg.id ELSE @,
                                !.settles = @ + 1],
          remove |-> TRUE]
  ELSE IF msg.status = "error"
    THEN [call |-> [call EXCEPT !.status = IF @ = "pending" THEN "rejected" ELSE @,
                                !.error = IF call.status = "pending" THEN msg.error ELSE @,
                                !.by = IF call.status = "pending" THEN msg.id ELSE @,
                                !.settles = @ + 1],
          remove |-> FALSE]
  ELSE [call |-> call, remove |-> FALSE]

handler(id, msg, call) ==
  IF msg.id # id THEN [call |-> call, remove |-> FALSE]
  ELSE IF msg.status = "progress"
    THEN [call |-> [call EXCEPT !.progress = @ + 1], remove |-> FALSE]
  ELSE IF msg.status = "complete"
    THEN [call |-> [call EXCEPT !.status = IF @ = "pending" THEN "resolved" ELSE @,
                                !.result = IF call.status = "pending" THEN msg.output ELSE @,
                                !.by = IF call.status = "pending" THEN msg.id ELSE @,
                                !.settles = @ + 1],
          remove |-> TRUE]
  ELSE IF msg.status = "error"
    THEN [call |-> [call EXCEPT !.status = IF @ = "pending" THEN "rejected" ELSE @,
                                !.error = IF call.status = "pending" THEN msg.error ELSE @,
                                !.by = IF call.status = "pending" THEN msg.id ELSE @,
                                !.settles = @ + 1],
          remove |-> TRUE]
  ELSE [call |-> call, remove |-> FALSE]

\* A handler registered with addEventListener: on is "current" while its
\* worker is the one the module holds, "terminated" once terminateWorker
\* dropped that worker.
Listener(on, id) == [on |-> on, id |-> id]

Message(id, status, output, error) ==
  [id |-> id, status |-> status, output |-> output, error |-> error]

\* The body of getEmbeddings for the call that draws correlation id c.
\* initWorker returns null without a window and the call rejects at once;
\* otherwise the worker is created if there is none, the handler is
\* registered and the request is posted.
getEmbeddings(c, texts) ==
  IF ~hasWindow
    THEN /\ calls' = [calls EXCEPT ![c] =
                        [NoCall EXCEPT !.status = "rejected", !.texts = texts,
                                       !.error = "Worker not initialized"]]
         /\ UNCHANGED <<workerVars, listeners>>
    ELSE /\ worker' = "worker"
         /\ calls' = [calls EXCEPT ![c] =
                        [NoCall EXCEPT !.status = "pending", !.texts = texts,
                                       !.posted = TRUE]]
         /\ listeners' = listeners \cup {Listener("current", c)}
         /\ inbox' = Append(inbox, [id |-> c, texts |-> texts])
         /\ UNCHANGED <<progressPosted, crashed, instance, jobs, outbox>>

\* The inputs other callers (buildIndex, one call per document) pass.
Batches == {<<>>, <<CATS, DOG>>}

\* A caller other than search calls getEmbeddings.
GetEmbeddings ==
  /\ nextId < MaxCalls
  /\ \E texts \in Batches : getEmbeddings(nextId + 1, texts)
  /\ nextId' = nextId + 1
  /\ UNCHANGED <<hasWindow, chunkVars, indexVars, searchVars>>

\* terminateWorker: the worker stops at once; what it was sent and what it
\* posted but was not yet dispatched is discarded.
TerminateWorker ==
  /\ worker # "null"
  /\ worker' = "null"
  /\ inbox' = <<>>
  /\ outbox' = <<>>
  /\ jobs' = NoJobs
  /\ instance' = FALSE
  /\ crashed' = FALSE
  /\ listeners' = {Listener("terminated", l.id) : l \in listeners}
  /\ UNCHANGED <<progressPosted, hasWindow, calls, nextId, chunkVars, indexVars, searchVars>>

\* The worker fails outside its message handler (its script fails to load,
\* it runs out of memory): it handles no further event and posts nothing.
\* The Worker object fires 'error', for which getEmbeddings registers nothing.
WorkerCrash ==
  /\ worker # "null"
  /\ ~crashed
  /\ crashed' = TRUE
  /\ UNCHANGED <<worker, progressPosted, instance, inbox, jobs, outbox,
                 hasWindow, calls, listeners, nextId, chunkVars, indexVars, searchVars>>

WorkerRuns == worker # "null" /\ ~crashed

\* worker.ts message listener, up to its first await: getInstance returns the
\* loaded pipeline, or starts loading one.
WorkerReceive ==
  /\ WorkerRuns
  /\ inbox # <<>>
  /\ jobs' = [jobs EXCEPT ![Head(inbox).id] =
                 [stage |-> IF instance THEN "extract" ELSE "init",
                  texts |-> Head(inbox).texts]]
  /\ inbox' = Tail(inbox)
  /\ UNCHANGED <<worker, progressPosted, crashed, instance, outbox,
                 hasWindow, calls, listeners, nextId, chunkVars, indexVars, searchVars>>

\* progress_callback of the pipeline being loaded for request id
WorkerProgress(id) ==
  /\ WorkerRuns
  /\ jobs[id].stage = "init"
  /\ progressPosted < MaxProgress
  /\ progressPosted' = progressPosted + 1
  /\ outbox' = Append(outbox, Message(id, "progress", <<>>, ""))
  /\ UNCHANGED <<worker, crashed, instance, inbox, jobs,
                 hasWindow, calls, listeners, nextId, chunkVars, indexVars, searchVars>>

\* pipeline(...) resolves: the instance is stored and extractor(input) starts
WorkerLoaded(id) ==
  /\ WorkerRuns
  /\ jobs[id].stage = "init"
  /\ instance' = TRUE
  /\ jobs' = [jobs EXCEPT ![id].stage = "extract"]
  /\ UNCHANGED <<worker, progressPosted, crashed, inbox, outbox,
                 hasWindow, calls, listeners, nextId, chunkVars, indexVars, searchVars>>

\* extractor(input) resolves: the 'complete' message is posted
WorkerComplete(id) ==
  /\ WorkerRuns
  /\ jobs[id].stage = "extract"
  /\ jobs' = [jobs EXCEPT ![id] = [stage |-> "none", texts |-> <<>>]]
  /\ outbox' = Append(outbox, Message(id, "complete", tolist(jobs[id].texts), ""))
  /\ UNCHANGED <<worker, progressPosted, crashed, instance, inbox,
                 hasWindow, calls, listeners, nextId, chunkVars, indexVars, searchVars>>

\* pipeline(...) or extractor(input) throws: the catch block posts 'error'
WorkerError(id) ==
  /\ WorkerRuns
  /\ jobs[id].stage \in {"init", "extract"}
  /\ jobs' = [jobs EXCEPT ![id] = [stage |-> "none", texts |-> <<>>]]
  /\ outbox' = Append(outbox, Message(id, "error", <<>>, "backend error"))
  /\ UNCHANGED <<worker, progressPosted, crashed, instance, inbox,
                 hasWindow, calls, listeners, nextId, chunkVars, indexVars, searchVars>>

\* The main thread dispatches the next message event of the worker to every
\* handler registered on it.
Deliver ==
  /\ outbox # <<>>
  /\ LET msg == Head(outbox)
         here == {c \in CallIds : Listener("current", c) \in listeners}
         ran == [c \in here |-> handler(c, msg, calls[c])]
     IN /\ calls' = [c \in CallIds |-> IF c \in here THEN ran[c].call ELSE calls[c]]
        /\ listeners' = listeners \ {Listener("current", c) : c \in {d \in here : ran[d].remove}}
  /\ outbox' = Tail(outbox)
  /\ UNCHANGED <<worker, progressPosted, crashed, instance, inbox, jobs,
                 hasWindow, nextId, chunkVars, indexVars, searchVars>>

(***************************************************************************)
(* Exact arithmetic on scores: a number is n/d with d > 0                  *)
(***************************************************************************)
Abs(x) == IF x < 0 THEN -x ELSE x

RECURSIVE GCD(_, _)
GCD(a, b) == IF b = 0 THEN a ELSE GCD(b, a % b)

\* n/d in lowest terms
R(n, d) ==
  LET g == GCD(Abs(n), d) IN [n |-> n \div g, d |-> d \div g]
RLt(a, b) == a.n * b.d < b.n * a.d
RGe(a, b) == ~RLt(a, b)
RGt(a, b) == RLt(b, a)
REq(a, b) == a.n * b.d = b.n * a.d
RAdd(a, b) == R(a.n * b.d + b.n * a.d, a.d * b.d)
RSub(a, b) == R(a.n * b.d - b.n * a.d, a.d * b.d)
RMul(a, b) == R(a.n * b.n, a.d * b.d)
Zero == R(0, 1)

RECURSIVE SumTo(_, _)
SumTo(f, n) == IF n = 0 THEN 0 ELSE f[n] + SumTo(f, n - 1)

\* Math.sqrt, on the perfect squares the vectors of the model produce
Sqrt(x) == CHOOSE r \in 0..x : r * r = x

dotProduct(a, b) == SumTo([i \in 1..Len(a) |-> a[i] * b[i]], Len(a))

magnitude(a) == Sqrt(SumTo([i \in 1..Len(a) |-> a[i] * a[i]], Len(a)))

cosineSimilarity(a, b) ==
  LET magA == magnitude(a)
      magB == magnitude(b)
  IN IF magA = 0 \/ magB = 0 THEN Zero ELSE R(dotProduct(a, b), magA * magB)

(***************************************************************************)
(* keywordScore                                                            *)
(***************************************************************************)
UpperCase == <<"A", "B", "C", "D", "E", "F", "G", "H", "I", "J", "K", "L", "M",
               "N", "O", "P", "Q", "R", "S", "T", "U", "V", "W", "X", "Y", "Z">>
LowerCase == <<"a", "b", "c", "d", "e", "f", "g", "h", "i", "j", "k", "l", "m",
               "n", "o", "p", "q", "r", "s", "t", "u", "v", "w", "x", "y", "z">>
Digits == {"0", "1", "2", "3", "4", "5", "6", "7", "8", "9"}

toLowerCase(s) ==
  [i \in 1..Len(s) |->
     IF \E k \in 1..Len(UpperCase) : UpperCase[k] = s[i]
       THEN LowerCase[CHOOSE k \in 1..Len(UpperCase) : UpperCase[k] = s[i]]
       ELSE s[i]]

\* split(/\s+/): the pieces between maximal runs of whitespace, the empty
\* piece before a leading and after a trailing run included.
RECURSIVE SplitFrom(_, _, _, _)
SplitFrom(s, i, cur, acc) ==
  IF i > Len(s) THEN Append(acc, cur)
  ELSE IF IsWhitespace(s[i])
    THEN IF i > 1 /\ IsWhitespace(s[i - 1])
           THEN SplitFrom(s, i + 1, cur, acc)
           ELSE SplitFrom(s, i + 1, <<>>, Append(acc, cur))
  ELSE SplitFrom(s, i + 1, Append(cur, s[i]), acc)

split(s) == SplitFrom(s, 1, <<>>, <<>>)

TrailingPunctuation == {"?", ".", ",", "!", ";", ":", "\"", "'", ")", "]", "}"}
LeadingPunctuation == {"(", "[", "{", "'", "\""}

\* t.replace(/[?.,!;:"')\]}]+$/, '').replace(/^[(\[{'"]+/, '')
cleanTerm(t) ==
  LET keepEnd == {i \in 1..Len(t) : t[i] \notin TrailingPunctuation}
      t1 == IF keepEnd = {} THEN <<>> ELSE SubSeq(t, 1, SetMax(keepEnd))
      keepStart == {i \in 1..Len(t1) : t1[i] \notin LeadingPunctuation}
  IN IF keepStart = {} THEN <<>> ELSE SubSeq(t1, SetMin(keepStart), Len(t1))

IsAlphanumeric(c) ==
  \/ \E k \in 1..Len(LowerCase) : LowerCase[k] = c \/ UpperCase[k] = c
  \/ c \in Digits

keepTerm(t) ==
  /\ t # <<>>
  /\ \/ Len(t) > 2
     \/ \E i \in 1..Len(t) : ~IsAlphanumeric(t[i])

\* String.prototype.includes
includes(s, t) ==
  \E k \in 0..(Len(s) - Len(t)) : SubSeq(s, k + 1, k + Len(t)) = t

queryTermsOf(q) ==
  LET rawTerms == split(toLowerCase(q))
  IN SelectSeq([i \in 1..Len(rawTerms) |-> cleanTerm(rawTerms[i])], keepTerm)

KeywordScoreDistinct(q, t) ==
  LET queryTerms == queryTermsOf(q)
      textLower == toLowerCase(t)
      matches == Cardinality({queryTerms[i] : i \in {j \in 1..Len(queryTerms) :
                                                       includes(textLower, queryTerms[j])}})
  IN IF Len(queryTerms) = 0 THEN Zero ELSE R(matches, Len(queryTerms))

keywordScore(q, t) ==
  LET queryTerms == queryTermsOf(q)
      textLower == toLowerCase(t)
      matches == Cardinality({i \in 1..Len(queryTerms) : includes(textLower, queryTerms[i])})
  IN IF Len(queryTerms) = 0 THEN Zero ELSE R(matches, Len(queryTerms))

(***************************************************************************)
(* search                                                                  *)
(***************************************************************************)
SemanticWeight == R(3, 10)
KeywordWeight == R(7, 10)
lambda == R(7, 10)
RelativeCutoff == R(85, 100)

\* the score search gives one chunk
ScoreUnweighted(q, queryEmbedding, chunk) ==
  LET semanticScore == IF chunk.embedding # NoEmbedding
                         THEN cosineSimilarity(queryEmbedding, chunk.embedding)
                         ELSE Zero
      keywordSimilarity == keywordScore(q, chunk.content)
  IN [chunk |-> chunk, score |-> RAdd(semanticScore, keywordSimilarity)]

ScoreWeightsSwapped(q, queryEmbedding, chunk) ==
  LET semanticScore == IF chunk.embedding # NoEmbedding
                         THEN cosineSimilarity(queryEmbedding, chunk.embedding)
                         ELSE Zero
      keywordSimilarity == keywordScore(q, chunk.content)
  IN [chunk |-> chunk,
      score |-> RAdd(RMul(semanticScore, KeywordWeight),
                     RMul(keywordSimilarity, SemanticWeight))]

scoreChunk(q, queryEmbedding, chunk) ==
  LET semanticScore == IF chunk.embedding # NoEmbedding
                         THEN cosineSimilarity(queryEmbedding, chunk.embedding)
                         ELSE Zero
      keywordSimilarity == keywordScore(q, chunk.content)
  IN [chunk |-> chunk,
      score |-> RAdd(RMul(semanticScore, SemanticWeight),
                     RMul(keywordSimilarity, KeywordWeight))]

\* Array.prototype.sort((a, b) => b.score - a.score): stable, descending
SortUnsorted(rs) == rs

SortTiesReversed(rs) ==
  LET rank(i) == Cardinality({j \in 1..Len(rs) : RGt(rs[j].score, rs[i].score)})
                 + Cardinality({j \in (i + 1)..Len(rs) : REq(rs[j].score, rs[i].score)})
  IN [k \in 1..Len(rs) |-> rs[CHOOSE i \in 1..Len(rs) : rank(i) = k - 1]]

SortAscending(rs) ==
  LET rank(i) == Cardinality({j \in 1..Len(rs) : RLt(rs[j].score, rs[i].score)})
                 + Cardinality({j \in 1..(i - 1) : REq(rs[j].score, rs[i].score)})
  IN [k \in 1..Len(rs) |-> rs[CHOOSE i \in 1..Len(rs) : rank(i) = k - 1]]

sortByScore(rs) ==
  LET rank(i) == Cardinality({j \in 1..Len(rs) : RGt(rs[j].score, rs[i].score)})
                 + Cardinality({j \in 1..(i - 1) : REq(rs[j].score, rs[i].score)})
  IN [k \in 1..Len(rs) |-> rs[CHOOSE i \in 1..Len(rs) : rank(i) = k - 1]]

\* Array.prototype.slice(0, n)
Take(s, n) == SubSeq(s, 1, Min(n, Len(s)))

RemoveAt(s, i) == SubSeq(s, 1, i - 1) \o SubSeq(s, i + 1, Len(s))

maxSimToSelected(item, selected) ==
  LET sims == {cosineSimilarity(item.chunk.embedding, selected[k].chunk.embedding) :
                 k \in {j \in 1..Len(selected) :
                          /\ item.chunk.embedding # NoEmbedding
                          /\ selected[j].chunk.embedding # NoEmbedding}}
      over == {s \in sims : RGt(s, Zero)}
  IN IF over = {} THEN Zero ELSE CHOOSE s \in over : \A o \in over : RGe(s, o)

MmrRelevanceOnly(item, selected) == RMul(lambda, item.score)

mmrScore(item, selected) ==
  RSub(RMul(lambda, item.score),
       RMul(RSub(R(1, 1), lambda), maxSimToSelected(item, selected)))

\* the inner for loop: the first index holding the greatest mmrScore
bestIdxOf(remaining, selected) ==
  CHOOSE i \in 1..Len(remaining) :
    /\ \A j \in 1..Len(remaining) :
         RGe(mmrScore(remaining[i], selected), mmrScore(remaining[j], selected))
    /\ \A j \in 1..(i - 1) :
         RGt(mmrScore(remaining[i], selected), mmrScore(remaining[j], selected))

RECURSIVE mmrLoop(_, _, _)
mmrLoop(selected, remaining, k) ==
  IF Len(selected) < k /\ Len(remaining) > 0
    THEN LET bestIdx == bestIdxOf(remaining, selected)
         IN mmrLoop(Append(selected, remaining[bestIdx]), RemoveAt(remaining, bestIdx), k)
    ELSE selected

\* the candidate list: the reranker's selection or the top of the sorted list
RerankWholeList(allResults, k, rerank) ==
  IF rerank THEN mmrLoop(<<>>, allResults, k)
  ELSE Take(allResults, k)

candidatesOf(allResults, k, rerank) ==
  IF rerank THEN mmrLoop(<<>>, Take(allResults, k * 3), k)
  ELSE Take(allResults, k)

\* the final filter by threshold and the relative score filtering
FilterWithoutThreshold(rs, thr) ==
  IF Len(rs) > 0
    THEN LET bestScore == rs[1].score
             near(r) == RGe(r.score, RMul(bestScore, RelativeCutoff))
         IN SelectSeq(rs, near)
    ELSE rs

FilterBelowThreshold(rs, thr) ==
  LET below(r) == RGe(thr, r.score)
      kept == SelectSeq(rs, below)
  IN IF Len(kept) > 0
       THEN LET bestScore == kept[1].score
                near(r) == RGe(r.score, RMul(bestScore, RelativeCutoff))
            IN SelectSeq(kept, near)
       ELSE kept

filterResults(rs, thr) ==
  LET above(r) == RGe(r.score, thr)
      kept == SelectSeq(rs, above)
  IN IF Len(kept) > 0
       THEN LET bestScore == kept[1].score
                near(r) == RGe(r.score, RMul(bestScore, RelativeCutoff))
            IN SelectSeq(kept, near)
       ELSE kept

allResultsOf(q, idx, queryEmbedding) ==
  LET scored == [i \in 1..Len(idx.chunks) |-> scoreChunk(q, queryEmbedding, idx.chunks[i])]
  IN sortByScore(SubSeq(scored, 1, Len(scored)))

\* search from the resolved query embedding on
searchResults(q, idx, k, thr, rerank, queryEmbedding) ==
  filterResults(candidatesOf(allResultsOf(q, idx, queryEmbedding), k, rerank), thr)

\* if (!index.chunks.length) return []
NeverEmpty(idx) == FALSE

indexIsEmpty(idx) == Len(idx.chunks) = 0

\* search up to its await: the empty index returns at once, otherwise the
\* query is sent to getEmbeddings.
SearchStart ==
  /\ spc = "idle"
  /\ IF indexIsEmpty(index)
       THEN /\ spc' = "returned"
            /\ results' = <<>>
            /\ UNCHANGED <<scall, embedVars>>
       ELSE /\ nextId < MaxCalls
            /\ getEmbeddings(nextId + 1, <<query>>)
            /\ nextId' = nextId + 1
            /\ scall' = nextId + 1
            /\ spc' = "awaiting"
            /\ UNCHANGED <<results, hasWindow>>
  /\ UNCHANGED <<searchArgs, chunkVars, indexVars>>

\* search after its await: a rejected getEmbeddings rejects search (there is
\* no try around the await); a missing first vector returns [].
SearchResume ==
  /\ spc = "awaiting"
  /\ calls[scall].status \in {"resolved", "rejected"}
  /\ IF calls[scall].status = "rejected"
       THEN /\ spc' = "rejected"
            /\ results' = <<>>
       ELSE LET output == calls[scall].result
                queryEmbedding == IF Len(output) > 0 THEN output[1] ELSE NoEmbedding
            IN /\ spc' = "returned"
               /\ results' = IF queryEmbedding = NoEmbedding THEN <<>>
                             ELSE searchResults(query, index, topK, threshold,
                                                useReranker, queryEmbedding)
  /\ UNCHANGED <<scall, searchArgs, embedVars, chunkVars, indexVars>>

(***************************************************************************)
(* saveIndex, loadIndex, clearIndex                                        *)
(***************************************************************************)
\* localStorage.getItem(STORAGE_KEY): null, or the string stored.  A string
\* is told by whether JSON.parse accepts it and, if so, the value it denotes.
Absent == [kind |-> "absent"]
Unparsable == [kind |-> "string", parses |-> FALSE]
Json(v) == [kind |-> "string", parses |-> TRUE, value |-> v]

\* null, for an index
Null == [null |-> TRUE]

\* JSON.stringify leaves out a property whose value is undefined
stringifyChunk(c) ==
  IF c.embedding = NoEmbedding THEN [k \in DOMAIN c \ {"embedding"} |-> c[k]] ELSE c

stringifyChunks(cs) == [i \in 1..Len(cs) |-> stringifyChunk(cs[i])]

stringify(idx) ==
  Json([version |-> idx.version,
        documents |-> [i \in 1..Len(idx.documents) |->
                         [idx.documents[i] EXCEPT !.chunks = stringifyChunks(@)]],
        chunks |-> stringifyChunks(idx.chunks)])

\* reading a property the parsed object does not have gives undefined
parseChunk(j) ==
  IF "embedding" \in DOMAIN j THEN j
  ELSE [k \in DOMAIN j \cup {"embedding"} |-> IF k = "embedding" THEN NoEmbedding ELSE j[k]]

parseChunks(js) == [i \in 1..Len(js) |-> parseChunk(js[i])]

parse(v) ==
  [version |-> v.version,
   documents |-> [i \in 1..Len(v.documents) |->
                    [v.documents[i] EXCEPT !.chunks = parseChunks(@)]],
   chunks |-> parseChunks(v.chunks)]

\* loadIndex with the item st in the store: null without a window, without
\* the item, and when JSON.parse throws (the catch block logs and returns null)
loadIndex(st, win) ==
  IF ~win THEN Null
  ELSE IF st.kind = "absent" THEN Null
  ELSE IF ~st.parses THEN Null
  ELSE parse(st.value)

\* the store after saveIndex(idx): setItem throws when the quota is exceeded
\* (fits is false), and the catch block only logs
saveIndex(st, win, idx, fits) ==
  IF ~win THEN st
  ELSE IF fits THEN stringify(idx)
  ELSE st

\* the store after clearIndex()
clearIndex(st, win) == IF ~win THEN st ELSE Absent

(***************************************************************************)
(* buildIndex and the KnowledgeManager handlers                            *)
(***************************************************************************)
DefaultSize == 500
DefaultOverlap == 50

\* chunkText as a function: the chunks of the loop from cursor st on
RECURSIVE chunkTextFrom(_, _, _, _, _)
chunkTextFrom(t, sz, ov, st, fuel) ==
  IF st < Len(t) /\ fuel > 0
    THEN LET e == WindowEnd(t, st, sz)
             c == ChunkOf(t, st, e)
         IN (IF Len(c.content) > 0 THEN <<c>> ELSE <<>>)
              \o chunkTextFrom(t, sz, ov, NextStart(e, ov), fuel - 1)
    ELSE <<>>

chunkText(t, sz, ov) == chunkTextFrom(t, sz, ov, 0, MaxIter)

\* the identifiers uuidv4 draws: one per document and one per chunk
DocId(i) == <<"doc", i>>
ChunkId(i, k) == <<"chunk", i, k>>

\* textChunks.map(c => c.content)
chunkContents(t) ==
  LET textChunks == chunkText(t, DefaultSize, DefaultOverlap)
  IN [k \in 1..Len(textChunks) |-> textChunks[k].content]

\* the chunks made for document i from its text and the embeddings received
WithWrongDocumentId(i, t, embeddings) ==
  LET textChunks == chunkText(t, DefaultSize, DefaultOverlap)
  IN [k \in 1..Len(textChunks) |->
        [id |-> ChunkId(i, k - 1),
         documentId |-> DocId(i + 1),
         content |-> textChunks[k].content,
         embedding |-> IF k <= Len(embeddings) THEN embeddings[k] ELSE NoEmbedding,
         metadata |-> [source |-> i, index |-> k - 1,
                       lineStart |-> textChunks[k].lineStart,
                       lineEnd |-> textChunks[k].lineEnd]]]

documentChunks(i, t, embeddings) ==
  LET textChunks == chunkText(t, DefaultSize, DefaultOverlap)
  IN [k \in 1..Len(textChunks) |->
        [id |-> ChunkId(i, k - 1),
         documentId |-> DocId(i),
         content |-> textChunks[k].content,
         embedding |-> IF k <= Len(embeddings) THEN embeddings[k] ELSE NoEmbedding,
         metadata |-> [source |-> i, index |-> k - 1,
                       lineStart |-> textChunks[k].lineStart,
                       lineEnd |-> textChunks[k].lineEnd]]]

Document(i, t, cs) ==
  [id |-> DocId(i), name |-> i, content |-> t, type |-> "text", chunks |-> cs]

BuiltIndex(docs, cs) == [version |-> 1, documents |-> docs, chunks |-> cs]

\* the files staged for a rebuild: a word, another word, a blank file
BLANK == <<SPACE>>
DocTexts == {CATS, DOG, BLANK}
Staged == UNION {[1..n -> DocTexts] : n \in 1..MaxDocs}

\* handleBuildIndex up to the await of the first document's embeddings:
\* nothing happens without staged files; buildIndex starts its loop.
HandleBuildIndex ==
  /\ bpc = "idle"
  /\ \E texts \in Staged :
       /\ nextId + Len(texts) <= MaxCalls
       /\ btexts' = texts
       /\ getEmbeddings(nextId + 1, chunkContents(texts[1]))
  /\ nextId' = nextId + 1
  /\ bcall' = nextId + 1
  /\ bi' = 1
  /\ documents' = <<>>
  /\ allChunks' = <<>>
  /\ bpc' = "awaiting"
  /\ UNCHANGED <<hasWindow, stored, kmIndex, bout, lastOp, messageVars,
                 chunkVars, searchVars>>

\* buildIndex after an await.  A rejected getEmbeddings rejects buildIndex and
\* handleBuildIndex reports the error.  Otherwise the document and its chunks
\* are pushed; the loop goes on to the await of the next document, or
\* buildIndex returns and handleBuildIndex saves the index and keeps it.
BuildResumeKeepsPartial ==
  /\ bpc = "awaiting"
  /\ calls[bcall].status \in {"resolved", "rejected"}
  /\ IF calls[bcall].status = "rejected"
       THEN /\ bpc' = "idle"
            /\ bout' = "error"
            /\ \E fits \in BOOLEAN :
                 stored' = saveIndex(stored, hasWindow, BuiltIndex(documents, allChunks), fits)
            /\ kmIndex' = BuiltIndex(documents, allChunks)
            /\ lastOp' = "saved"
            /\ documents' = <<>>
            /\ allChunks' = <<>>
            /\ UNCHANGED <<btexts, bi, bcall, embedVars>>
       ELSE LET cs == documentChunks(bi, btexts[bi], calls[bcall].result)
                docs == Append(documents, Document(bi, btexts[bi], cs))
                all == allChunks \o cs
            IN IF bi < Len(btexts)
                 THEN /\ getEmbeddings(nextId + 1, chunkContents(btexts[bi + 1]))
                      /\ nextId' = nextId + 1
                      /\ bcall' = nextId + 1
                      /\ bi' = bi + 1
                      /\ documents' = docs
                      /\ allChunks' = all
                      /\ UNCHANGED <<hasWindow, stored, kmIndex, bout, lastOp, btexts, bpc>>
                 ELSE /\ \E fits \in BOOLEAN :
                           stored' = saveIndex(stored, hasWindow, BuiltIndex(docs, all), fits)
                      /\ kmIndex' = BuiltIndex(docs, all)
                      /\ lastOp' = "saved"
                      /\ bout' = "complete"
                      /\ bpc' = "idle"
                      /\ documents' = <<>>
                      /\ allChunks' = <<>>
                      /\ UNCHANGED <<btexts, bi, bcall, embedVars>>
  /\ UNCHANGED <<messageVars, chunkVars, searchVars>>

BuildResume ==
  /\ bpc = "awaiting"
  /\ calls[bcall].status \in {"resolved", "rejected"}
  /\ IF calls[bcall].status = "rejected"
       THEN /\ bpc' = "idle"
            /\ bout' = "error"
            /\ documents' = <<>>
            /\ allChunks' = <<>>
            /\ UNCHANGED <<stored, kmIndex, lastOp, btexts, bi, bcall, embedVars>>
       ELSE LET cs == documentChunks(bi, btexts[bi], calls[bcall].result)
                docs == Append(documents, Document(bi, btexts[bi], cs))
                all == allChunks \o cs
            IN IF bi < Len(btexts)
                 THEN /\ getEmbeddings(nextId + 1, chunkContents(btexts[bi + 1]))
                      /\ nextId' = nextId + 1
                      /\ bcall' = nextId + 1
                      /\ bi' = bi + 1
                      /\ documents' = docs
                      /\ allChunks' = all
                      /\ UNCHANGED <<hasWindow, stored, kmIndex, bout, lastOp, btexts, bpc>>
                 ELSE /\ \E fits \in BOOLEAN :
                           stored' = saveIndex(stored, hasWindow, BuiltIndex(docs, all), fits)
                      /\ kmIndex' = BuiltIndex(docs, all)
                      /\ lastOp' = "saved"
                      /\ bout' = "complete"
                      /\ bpc' = "idle"
                      /\ documents' = <<>>
                      /\ allChunks' = <<>>
                      /\ UNCHANGED <<btexts, bi, bcall, embedVars>>
  /\ UNCHANGED <<messageVars, chunkVars, searchVars>>

\* handleClearIndex
ClearIndexInPlace ==
  /\ kmIndex # Null
  /\ stored' = clearIndex(stored, hasWindow)
  /\ kmIndex' = Null
  /\ lastOp' = "cleared"
  /\ index' = IF index = Null THEN index ELSE BuiltIndex(<<>>, <<>>)
  /\ UNCHANGED <<bout, buildVars, messageVars, chunkVars, embedVars,
                 query, topK, threshold, useReranker, spc, scall, results>>

HandleClearIndex ==
  /\ kmIndex # Null
  /\ stored' = clearIndex(stored, hasWindow)
  /\ kmIndex' = Null
  /\ lastOp' = "cleared"
  /\ UNCHANGED <<bout, buildVars, messageVars, chunkVars, embedVars, searchVars>>

(***************************************************************************)
(* sendMessage: the retrieval step                                         *)
(***************************************************************************)
RagModes == {"hybrid", "strict"}

\* the getEmbeddings calls the rebuild in progress has yet to make
CallsToCome == IF bpc = "awaiting" THEN Len(btexts) - bi ELSE 0

\* sendMessage with retrieval on, up to the await in search: the index is
\* loaded; without one nothing is retrieved; search returns [] for an index
\* without chunks and otherwise asks for the embedding of the query.
RetrieveStart ==
  /\ mpc = "idle"
  /\ spc = "idle"
  /\ \E mode \in RagModes : ragMode' = mode
  /\ LET idx == loadIndex(stored, hasWindow)
     IN /\ index' = idx
        /\ snapshot' = idx
        /\ IF idx = Null
             THEN /\ mpc' = "done"
                  /\ UNCHANGED <<spc, scall, results, embedVars>>
             ELSE IF indexIsEmpty(idx)
               THEN /\ mpc' = "searching"
                    /\ spc' = "returned"
                    /\ results' = <<>>
                    /\ UNCHANGED <<scall, embedVars>>
               ELSE /\ nextId + CallsToCome < MaxCalls
                    /\ getEmbeddings(nextId + 1, <<query>>)
                    /\ nextId' = nextId + 1
                    /\ scall' = nextId + 1
                    /\ mpc' = "searching"
                    /\ spc' = "awaiting"
                    /\ UNCHANGED <<results, hasWindow>>
  /\ UNCHANGED <<query, topK, threshold, useReranker, sources, contextString,
                 stored, managerVars, chunkVars>>

\* the text added to the system prompt, by its kind
contextFor(mode, rs) ==
  IF Len(rs) > 0
    THEN IF mode = "strict" THEN "context, strict instructions"
         ELSE "context, hybrid instructions"
    ELSE IF mode = "strict" THEN "no context, strict instructions"
         ELSE ""

sourcesFor(rs) ==
  [i \in 1..Len(rs) |-> [id |-> i, content |-> rs[i].chunk.content, score |-> rs[i].score]]

\* sendMessage after search settled: the results become the sources and the
\* context; a rejected search is caught and logged.  At "done" sendMessage
\* goes on to build the system message and to request the chat completion;
\* at "failed" it has rejected.
RetrieveFinishUncaught ==
  /\ mpc = "searching"
  /\ spc \in {"returned", "rejected"}
  /\ IF spc = "rejected"
       THEN /\ mpc' = "failed"
            /\ UNCHANGED <<sources, contextString>>
       ELSE /\ sources' = sourcesFor(results)
            /\ contextString' = contextFor(ragMode, results)
            /\ mpc' = "done"
  /\ UNCHANGED <<ragMode, snapshot, stored, managerVars, chunkVars, embedVars, searchVars>>

RetrieveFinish ==
  /\ mpc = "searching"
  /\ spc \in {"returned", "rejected"}
  /\ IF spc = "rejected"
       THEN UNCHANGED <<sources, contextString>>
       ELSE /\ sources' = sourcesFor(results)
            /\ contextString' = contextFor(ragMode, results)
  /\ mpc' = "done"
  /\ UNCHANGED <<ragMode, snapshot, stored, managerVars, chunkVars, embedVars, searchVars>>

(***************************************************************************)
(* Specifications                                                          *)
(***************************************************************************)
Chunk(content, embedding) == [content |-> content, embedding |-> embedding]

\* the chunks an index is drawn from: embeddings along, across and against
\* the query vectors, and a chunk that was never embedded
ChunkPool ==
  {Chunk(CATS, <<1, 0>>), Chunk(CAT, <<3, 4>>), Chunk(DOG, <<-1, 0>>), Chunk(DOG, NoEmbedding)}

VectorIndex(cs) ==
  [chunks |-> [i \in 1..Len(cs) |->
                 [id |-> i, content |-> cs[i].content, embedding |-> cs[i].embedding]]]

\* an index of more chunks than the reranker's pool holds for topK 1 and 2:
\* six chunks alike and a seventh across them
LongIndex ==
  VectorIndex([i \in 1..7 |-> IF i < 7 THEN Chunk(CATS, <<1, 0>>) ELSE Chunk(CAT, <<3, 4>>)])

\* an index whose second and third chunk score alike for the query CAT and
\* differ in their similarity to the first, which scores best
TieIndex ==
  VectorIndex(<<Chunk(CATS, <<4, 3>>), Chunk(CATS, <<3, 4>>), Chunk(CATS, <<3, -4>>)>>)

\* the index searched with the queries CAT_CAT_DOG and OF: an embedding near
\* the query's, none, and one of magnitude 0
KeywordIndex ==
  VectorIndex(<<Chunk(CATS, <<3, 4>>), Chunk(DOG, NoEmbedding), Chunk(CATS, <<0, 0>>)>>)

Indexes ==
  {VectorIndex(cs) : cs \in UNION {[1..n -> ChunkPool] : n \in 0..MaxChunks}}
    \cup {LongIndex, TieIndex}

Thresholds == {R(-1, 2), R(1, 10), R(1, 2)}

\* the module as loaded: no worker, no call made
EmbedIdle ==
  /\ worker = "null"
  /\ progressPosted = 0
  /\ crashed = FALSE
  /\ instance = FALSE
  /\ inbox = <<>>
  /\ jobs = NoJobs
  /\ outbox = <<>>
  /\ calls = [c \in CallIds |-> NoCall]
  /\ listeners = {}
  /\ nextId = 0

SearchIdle ==
  /\ spc = "idle"
  /\ scall = 0
  /\ results = <<>>

BuildIdle ==
  /\ btexts = <<>>
  /\ bi = 0
  /\ documents = <<>>
  /\ allChunks = <<>>
  /\ bpc = "idle"
  /\ bcall = 0
  /\ bout = "none"
  /\ lastOp = "none"

MessageIdle ==
  /\ ragMode = "hybrid"
  /\ mpc = "idle"
  /\ sources = <<>>
  /\ contextString = ""
  /\ snapshot = Null

\* nothing stored, no rebuild and no message
IndexIdle ==
  /\ stored = Absent
  /\ kmIndex = Null
  /\ BuildIdle
  /\ MessageIdle

\* The chunker alone, over every text and window geometry of the bounds.
InitChunk ==
  /\ ChunkEntered
  /\ hasWindow = TRUE
  /\ EmbedIdle
  /\ query = CAT
  /\ index = VectorIndex(<<>>)
  /\ topK = 3
  /\ threshold = R(1, 10)
  /\ useReranker = FALSE
  /\ SearchIdle
  /\ IndexIdle

NextChunk == ChunkIter \/ ChunkReturn

SpecChunk == InitChunk /\ [][NextChunk]_vars

\* The embedding client, the worker and one search, with other callers of
\* getEmbeddings running concurrently.
Init ==
  /\ ChunkIdle
  /\ hasWindow \in BOOLEAN
  /\ EmbedIdle
  /\ query = CAT
  /\ index = VectorIndex(<<Chunk(CATS, <<1, 0>>)>>)
  /\ topK = 3
  /\ threshold = R(1, 10)
  /\ useReranker = FALSE
  /\ SearchIdle
  /\ IndexIdle

Next ==
  \/ GetEmbeddings
  \/ TerminateWorker
  \/ WorkerCrash
  \/ WorkerReceive
  \/ \E id \in CallIds : WorkerProgress(id)
  \/ \E id \in CallIds : WorkerLoaded(id)
  \/ \E id \in CallIds : WorkerComplete(id)
  \/ \E id \in CallIds : WorkerError(id)
  \/ Deliver
  \/ SearchStart
  \/ SearchResume

Spec == Init /\ [][Next]_vars

\* One search over every index, query and parameter setting of the bounds,
\* its query embedded by a worker that may fail.  search passes getEmbeddings
\* no onProgress, so progress messages are left to Spec.
InitSearch ==
  /\ ChunkIdle
  /\ hasWindow = TRUE
  /\ EmbedIdle
  /\ \/ query \in {CAT, CAT_DOG} /\ index \in Indexes
     \/ query \in {CAT_CAT_DOG, OF} /\ index = KeywordIndex
  /\ topK \in 1..MaxTopK
  /\ threshold \in Thresholds
  /\ useReranker \in BOOLEAN
  /\ SearchIdle
  /\ IndexIdle

NextSearch ==
  \/ SearchStart
  \/ WorkerReceive
  \/ \E id \in CallIds : WorkerLoaded(id)
  \/ \E id \in CallIds : WorkerComplete(id)
  \/ \E id \in CallIds : WorkerError(id)
  \/ Deliver
  \/ SearchResume

SpecSearch == InitSearch /\ [][NextSearch]_vars

\* the index a rebuild of an earlier session left in the store
PreviousIndex ==
  LET cs == documentChunks(1, CATS, tolist(<<CATS>>))
  IN BuiltIndex(<<Document(1, CATS, cs)>>, cs)

\* Rebuilds, clearing and one message with retrieval on, over a store that
\* holds nothing, a string that does not parse, or an earlier index.
InitIndex ==
  /\ ChunkIdle
  /\ hasWindow = TRUE
  /\ EmbedIdle
  /\ query = CAT
  /\ index = Null
  /\ topK = 3
  /\ threshold = R(1, 10)
  /\ useReranker = FALSE
  /\ SearchIdle
  /\ stored \in {Absent, Unparsable, stringify(PreviousIndex)}
  /\ kmIndex = loadIndex(stored, hasWindow)
  /\ BuildIdle
  /\ MessageIdle

NextIndex ==
  \/ HandleBuildIndex
  \/ BuildResume
  \/ HandleClearIndex
  \/ RetrieveStart
  \/ SearchResume
  \/ RetrieveFinish
  \/ WorkerReceive
  \/ \E id \in CallIds : WorkerLoaded(id)
  \/ \E id \in CallIds : WorkerComplete(id)
  \/ \E id \in CallIds : WorkerError(id)
  \/ Deliver

SpecIndex == InitIndex /\ [][NextIndex]_vars

CeilDiv(a, b) == (a + b - 1) \div b

\* C1: for size >= 1 and 0 <= overlap < size, chunkText runs at most
\* ceil(text.length / (size - overlap)) iterations of its loop.
C1_IterationBound ==
  (size >= 1 /\ 0 <= overlap /\ overlap < size)
    => iters <= CeilDiv(Len(text), size - overlap)

\* C2: when overlap >= size the cursor is forced to the window end after
\* every iteration, so no window is processed twice.
C2_CursorForcedToEnd ==
  (overlap >= size /\ iters > 0) => start = end


Settled(c) == calls[c].status \in {"resolved", "rejected"}

\* C3: a failed or empty query embedding makes search return the empty list;
\* search never rejects because of it.
C3_SearchReturnsEmptyOnEmbeddingFailure ==
  (scall # 0 /\ calls[scall].status = "rejected" /\ spc # "awaiting")
    => (spc = "returned" /\ results = <<>>)

\* No message can reach call c any more: its handler sits on a terminated
\* worker, or the worker died outside its handler and posted nothing for c
\* that is still to be dispatched.
BackendLost(c) ==
  \/ Listener("terminated", c) \in listeners
  \/ /\ crashed
     /\ Listener("current", c) \in listeners
     /\ \A i \in 1..Len(outbox) : outbox[i].id # c

\* C4: a call whose backend was terminated or crashed while its batch was
\* in flight fails; it is not left pending with nothing left to settle it.
C4_LostBatchFails ==
  \A c \in CallIds : BackendLost(c) => calls[c].status = "rejected"

\* C5: every call is settled by the terminal message carrying its own
\* correlation id, and a resolved call holds the output computed from its
\* own texts, whatever the order of the worker's answers.
C5_SettledByOwnMessage ==
  \A c \in CallIds :
    (Settled(c) /\ calls[c].posted)
      => /\ calls[c].by = c
         /\ calls[c].status = "resolved" => calls[c].result = tolist(calls[c].texts)

\* two calls with different inputs overlap and the later one is answered first
C5_Witness ==
  \E c, d \in CallIds :
    /\ c < d
    /\ calls[c].status = "pending"
    /\ Listener("current", c) \in listeners
    /\ calls[d].status = "resolved"
    /\ calls[d].by = d
    /\ calls[c].texts # calls[d].texts

\* C6: a call settles at most once and as a unit (one vector per input, or
\* one failure with no vectors); once it has settled, nothing about it
\* changes, so onProgress runs only before the terminal message; the outcome
\* is the same whether or not progress was reported.
C6_SettlesOnceAsUnit ==
  /\ [](\A c \in CallIds :
          /\ calls[c].settles <= 1
          /\ calls[c].status = "resolved"
               => /\ Len(calls[c].result) = Len(calls[c].texts)
                  /\ calls[c].result = tolist(calls[c].texts)
          /\ calls[c].status = "rejected" => calls[c].result = <<>>)
  /\ [][\A c \in CallIds : Settled(c) => calls'[c] = calls[c]]_vars

\* a call resolved with its two vectors after a progress notification
C6_Witness ==
  \E c \in CallIds :
    /\ calls[c].status = "resolved"
    /\ calls[c].progress >= 1
    /\ Len(calls[c].result) = 2

\* C7: getEmbeddings with an empty input array resolves with the empty
\* result and posts nothing to the worker.
C7_EmptyInputNoRoundTrip ==
  \A c \in CallIds :
    (calls[c].status # "none" /\ calls[c].texts = <<>>)
      => /\ ~calls[c].posted
         /\ calls[c].status = "resolved"
         /\ calls[c].result = <<>>

\* C8: search on an index without chunks returns the empty list in its
\* first step and issues no embedding request.
C8_EmptyIndexNoEmbedding ==
  (Len(index.chunks) = 0 /\ spc # "idle")
    => /\ spc = "returned"
       /\ results = <<>>
       /\ scall = 0
       /\ nextId = 0
       /\ worker = "null"
       /\ inbox = <<>>

C8_Witness == Len(index.chunks) = 0 /\ spc = "returned"

\* the candidate list of the search that returned
CandidatesReturned ==
  candidatesOf(allResultsOf(query, index, calls[scall].result[1]), topK, useReranker)

\* the elements of s at the positions in I, in order
AtPositions(s, I) ==
  LET pos(k) == CHOOSE i \in I : Cardinality({j \in I : j < i}) = k - 1
  IN [k \in 1..Cardinality(I) |-> s[pos(k)]]

SearchScored == spc = "returned" /\ scall # 0 /\ calls[scall].status = "resolved"

\* C9: the returned list is the candidate list without the results below
\* threshold and then without the results below 0.85 times the score of
\* the first one left; nothing left gives the empty list.
C9_TwoPassFilter ==
  SearchScored =>
    LET cand == CandidatesReturned
        pass1 == {i \in 1..Len(cand) : ~RLt(cand[i].score, threshold)}
    IN IF pass1 = {} THEN results = <<>>
       ELSE LET best == cand[SetMin(pass1)].score
                pass2 == {i \in pass1 : ~RLt(cand[i].score, RMul(best, R(85, 100)))}
            IN results = AtPositions(cand, pass2)

\* each pass removes a candidate and something is returned
C9_Witness ==
  /\ SearchScored
  /\ results # <<>>
  /\ LET cand == CandidatesReturned
     IN /\ \E i \in 1..Len(cand) : RLt(cand[i].score, threshold)
        /\ \E i \in 1..Len(cand) :
              /\ RGe(cand[i].score, threshold)
              /\ RLt(cand[i].score, RMul(results[1].score, R(85, 100)))

Descending(rs) ==
  \A i, j \in 1..Len(rs) : i < j => RGe(rs[i].score, rs[j].score)

\* C10 as stated: the returned list is in descending score order, with and
\* without the reranker.
C10_ResultsDescending == spc = "returned" => Descending(results)

\* C10 as amended: without the reranker the returned list is in descending
\* score order.
C10_DescendingWithoutReranker ==
  (spc = "returned" /\ ~useReranker) => Descending(results)

\* two results of different score returned without the reranker
C10_Witness ==
  /\ spc = "returned"
  /\ ~useReranker
  /\ Len(results) >= 2
  /\ RGt(results[1].score, results[2].score)

InUnitInterval(x) == RGe(x, Zero) /\ RGe(R(1, 1), x)

\* C11: every returned result has a score in [0,1], whatever the index and
\* the threshold.
C11_ScoreInUnitInterval ==
  spc = "returned" => \A i \in 1..Len(results) : InUnitInterval(results[i].score)

\* a candidate scored below 0 passes a negative threshold and something is
\* returned
C11_Witness ==
  /\ SearchScored
  /\ results # <<>>
  /\ LET cand == CandidatesReturned
     IN \E i \in 1..Len(cand) :
          RLt(cand[i].score, Zero) /\ RGe(cand[i].score, threshold)

\* C12: at most topK results are returned; without the reranker the
\* candidates are the first topK of the sorted list; with it they are topK
\* different entries (or all, when fewer) of the first 3 * topK of the
\* sorted list.
C12_AtMostTopK ==
  /\ spc = "returned" => Len(results) <= topK
  /\ SearchScored =>
       LET all == allResultsOf(query, index, calls[scall].result[1])
           cand == CandidatesReturned
           pool == Min(3 * topK, Len(all))
       IN IF useReranker
            THEN /\ Len(cand) = Min(topK, pool)
                 /\ \A i \in 1..Len(cand) : \E j \in 1..pool : cand[i] = all[j]
                 /\ \A i, j \in 1..Len(cand) : i # j => cand[i].chunk.id # cand[j].chunk.id
            ELSE /\ Len(cand) = Min(topK, Len(all))
                 /\ \A i \in 1..Len(cand) : cand[i] = all[i]

\* the sorted list is longer than the reranker's pool and the reranker
\* selects more than one
C12_Witness ==
  /\ SearchScored
  /\ useReranker
  /\ Len(index.chunks) > 3 * topK
  /\ Len(CandidatesReturned) = topK
  /\ topK > 1

\* the list search returns for the query embedding it got, had the threshold
\* been thr
ResultsAt(thr) ==
  searchResults(query, index, topK, thr, useReranker, calls[scall].result[1])

\* C13: for the same query, index, topK and reranker setting, no threshold
\* above the one used gives more results and none below it gives fewer.
C13_ThresholdMonotone ==
  SearchScored =>
    LET cand == CandidatesReturned
    IN \A t \in Thresholds :
         LET returned == Len(filterResults(cand, t))
         IN /\ RGe(t, threshold) => returned <= Len(results)
            /\ RGe(threshold, t) => returned >= Len(results)

\* something is returned and a higher threshold returns less
C13_Witness ==
  /\ SearchScored
  /\ results # <<>>
  /\ \E t \in Thresholds : RGt(t, threshold) /\ Len(ResultsAt(t)) < Len(results)

Covered ==
  /\ Len(spans) = Len(chunks)
  /\ \A i \in 1..Len(chunks) :
       chunks[i].content = Trim(SubSeq(text, spans[i].from + 1, spans[i].to))
  /\ \A p \in 1..Len(text) :
       ~IsWhitespace(text[p]) =>
         \E i \in 1..Len(spans) : spans[i].from < p /\ p <= spans[i].to

\* the next iteration leaves the cursor where it is: the loop never ends
Stuck ==
  /\ cpc = "loop"
  /\ start < Len(text)
  /\ NextStart(WindowEnd(text, start, size), overlap) = start

\* C15: with overlap < size the call is never stuck short of the end of the
\* text, and the chunks it returns cover the text: no character that is not
\* whitespace is missing from every chunk.
C15_ChunksCoverText ==
  overlap < size => (~Stuck /\ (cpc = "done" => Covered))

\* the chunks of a call that returned cover the text
CoveredWhenReturned == (cpc = "done" /\ overlap < size) => Covered

\* the number of lines of t: a newline ends a line, and characters after the
\* last newline make one more line
LineCount(t) ==
  countLines(t) + (IF Len(t) > 0 /\ t[Len(t)] # NEWLINE THEN 1 ELSE 0)

\* C16: the lineEnd of the last chunk returned is the number of lines of the
\* text, and the lineEnd values do not decrease.
C16_LastLineEndIsLineCount ==
  (cpc = "done" /\ Len(chunks) > 0) =>
    /\ chunks[Len(chunks)].lineEnd = LineCount(text)
    /\ \A i \in 1..(Len(chunks) - 1) : chunks[i].lineEnd <= chunks[i + 1].lineEnd

\* the chunk lists of the documents docs, one after the other
RECURSIVE ChunksOfDocuments(_)
ChunksOfDocuments(docs) ==
  IF Len(docs) = 0 THEN <<>>
  ELSE ChunksOfDocuments(SubSeq(docs, 1, Len(docs) - 1)) \o docs[Len(docs)].chunks

\* C17: in the index buildIndex returned, every chunk's documentId is the id
\* of one of its documents, and the flat chunk list is the documents' chunk
\* lists one after the other.
C17_ChunksBelongToDocuments ==
  (kmIndex # Null /\ bout = "complete") =>
    /\ \A k \in 1..Len(kmIndex.chunks) :
         \E d \in 1..Len(kmIndex.documents) :
           kmIndex.documents[d].id = kmIndex.chunks[k].documentId
    /\ kmIndex.chunks = ChunksOfDocuments(kmIndex.documents)

\* an index of two documents with a chunk each was built
C17_Witness ==
  /\ kmIndex # Null
  /\ bout = "complete"
  /\ Len(kmIndex.documents) = 2
  /\ Len(kmIndex.chunks) = 2
  /\ kmIndex.chunks[1].documentId # kmIndex.chunks[2].documentId

\* C18: the search of a message scores the index sendMessage loaded for it:
\* while it awaits the query embedding its index stays what it was given,
\* whatever is rebuilt, saved or cleared meanwhile, and what it returns is
\* computed from that index; a rebuild changes neither that index nor the
\* one the manager holds before the rebuild ends.
C18_SearchScoresSnapshot ==
  /\ []((mpc = "searching" /\ SearchScored) =>
          /\ index = snapshot
          /\ results = searchResults(query, snapshot, topK, threshold, useReranker,
                                     calls[scall].result[1]))
  /\ [][/\ spc = "awaiting" => index' = index
        /\ bpc' = "awaiting" => (buildVars' # buildVars => kmIndex' = kmIndex)]_vars

\* a search returned results from an index that the store no longer holds
C18_Witness ==
  /\ mpc = "searching"
  /\ SearchScored
  /\ results # <<>>
  /\ lastOp \in {"saved", "cleared"}
  /\ loadIndex(stored, hasWindow) # snapshot

\* the store changed while the search was awaiting its query embedding
ChangedInFlight ==
  /\ spc = "awaiting"
  /\ lastOp \in {"saved", "cleared"}
  /\ loadIndex(stored, hasWindow) # snapshot

\* C19: loadIndex answers null when nothing is stored or the stored string
\* does not parse, and a message that found no index ends its retrieval as
\* one that searched an index without chunks: no sources and the same
\* context.
C19_NoIndexAsEmptyIndex ==
  /\ stored \in {Absent, Unparsable} => loadIndex(stored, hasWindow) = Null
  /\ (mpc = "done" /\ snapshot = Null) =>
       /\ sources = sourcesFor(<<>>)
       /\ contextString = contextFor(ragMode, <<>>)

\* a message that searched an index without chunks
EmptyIndexRetrieved ==
  /\ mpc = "done"
  /\ snapshot # Null
  /\ Len(snapshot.chunks) = 0
  /\ ragMode = "strict"
  /\ contextString = "no context, strict instructions"

\* C20: after saveIndex(i) returned, loadIndex() gives an index equal to i
\* until the next saveIndex or clearIndex, and after clearIndex() it gives
\* none.  (kmIndex is the index the manager passed to the last saveIndex.)
C20_PersistenceRoundTrips ==
  /\ lastOp = "saved" => loadIndex(stored, hasWindow) = kmIndex
  /\ lastOp = "cleared" => loadIndex(stored, hasWindow) = Null

\* what is stored parses back to the index it was made from
StoredParsesBack == kmIndex # Null => parse(stringify(kmIndex).value) = kmIndex

\* C21: a search that rejects does not make sendMessage fail: sendMessage
\* goes on to the chat-completion request, with no retrieved context and no
\* sources.
C21_RetrievalFailureDoesNotAbort ==
  /\ [](mpc # "failed")
  /\ []((mpc = "done" /\ spc = "rejected") => (contextString = "" /\ sources = <<>>))
  /\ [][(mpc = "searching" /\ spc = "rejected" /\ mpc' # mpc) => mpc' = "done"]_vars

\* the worker answered the query with an error and sendMessage went on
C21_Witness ==
  /\ mpc = "done"
  /\ spc = "rejected"
  /\ scall # 0
  /\ calls[scall].error = "backend error"

\* entries of equal score are in the order of their chunks in the index
TiesInIndexOrder(rs) ==
  \A i, j \in 1..Len(rs) :
    (i < j /\ REq(rs[i].score, rs[j].score)) => rs[i].chunk.id < rs[j].chunk.id

\* C22 as stated: the scored chunks are sorted by descending score with
\* equal scores in index order, and equal scores keep their index order in
\* the candidate list and in the result.
C22_StableRanking ==
  SearchScored =>
    LET all == allResultsOf(query, index, calls[scall].result[1])
    IN /\ Descending(all) /\ TiesInIndexOrder(all)
       /\ TiesInIndexOrder(CandidatesReturned)
       /\ TiesInIndexOrder(results)

\* C22 as amended: the sorted list is descending with equal scores in index
\* order; without the reranker so are the candidate list and the result.
C22_StableRankingWithoutReranker ==
  SearchScored =>
    LET all == allResultsOf(query, index, calls[scall].result[1])
    IN /\ Descending(all) /\ TiesInIndexOrder(all)
       /\ ~useReranker => (/\ TiesInIndexOrder(CandidatesReturned)
                           /\ TiesInIndexOrder(results))

\* the first and the third of three chunks score alike, the second scores 0,
\* and the result is the first then the third
C22_Witness ==
  /\ SearchScored
  /\ ~useReranker
  /\ Len(index.chunks) = 3
  /\ Len(results) = 2
  /\ results[1].chunk.id = 1
  /\ results[2].chunk.id = 3
  /\ REq(results[1].score, results[2].score)
  /\ REq(scoreChunk(query, calls[scall].result[1], index.chunks[2]).score, Zero)

\* redundancy as the claim defines it: the greatest cosine similarity to a
\* selected result, 0 when there is none to compare with
redundancy(c, selected) ==
  LET sims == {cosineSimilarity(c.chunk.embedding, selected[k].chunk.embedding) :
                 k \in {j \in 1..Len(selected) :
                          /\ c.chunk.embedding # NoEmbedding
                          /\ selected[j].chunk.embedding # NoEmbedding}}
  IN IF sims = {} THEN Zero ELSE CHOOSE s \in sims : \A o \in sims : RGe(s, o)

mmr(c, selected) ==
  RSub(RMul(R(7, 10), c.score), RMul(R(3, 10), redundancy(c, selected)))

\* C23: every result the reranker selects has, among the candidates not
\* selected before it, the highest 0.7 * score - 0.3 * redundancy, where
\* redundancy is the greatest cosine similarity to a result selected before.
C23_StepTakesHighestMmr ==
  (SearchScored /\ useReranker) =>
    LET pool == Take(allResultsOf(query, index, calls[scall].result[1]), topK * 3)
        cand == CandidatesReturned
    IN \A k \in 1..Len(cand) :
         LET selected == SubSeq(cand, 1, k - 1)
             taken == {selected[j].chunk.id : j \in 1..(k - 1)}
         IN \A i \in 1..Len(pool) :
              pool[i].chunk.id \notin taken =>
                RGe(mmr(cand[k], selected), mmr(pool[i], selected))

\* the cosine similarity of two results, 0 when either has no embedding
similarity(a, b) ==
  IF a.chunk.embedding = NoEmbedding \/ b.chunk.embedding = NoEmbedding THEN Zero
  ELSE cosineSimilarity(a.chunk.embedding, b.chunk.embedding)

\* the candidates the reranker chose from and the ones it left
RerankPool == Take(allResultsOf(query, index, calls[scall].result[1]), topK * 3)

\* C24: when the reranker chooses from three candidates or more and selects
\* two, the second selected is no more similar to the first selected than the
\* highest-scoring candidate left unselected is.
C24_SecondNoMoreRedundant ==
  (SearchScored /\ useReranker) =>
    LET pool == RerankPool
        cand == CandidatesReturned
        taken == {cand[j].chunk.id : j \in 1..Len(cand)}
        left == {i \in 1..Len(pool) : pool[i].chunk.id \notin taken}
    IN (Len(pool) >= 3 /\ Len(cand) >= 2 /\ left # {}) =>
         LET top == CHOOSE i \in left : \A j \in left : i <= j
         IN RGe(similarity(pool[top], cand[1]), similarity(cand[2], cand[1]))

\* the redundancy the loop computes: a similarity below 0 counts as 0
Clamp(x) == IF RGt(x, Zero) THEN x ELSE Zero

\* C24 as amended: the second selected may be more similar to the first
\* selected than the highest-scoring candidate left unselected, but by no
\* more than its score advantage pays for:
\* 0.3 * (its redundancy - the other's) <= 0.7 * (its score - the other's).
C24_RedundancyPaidByScore ==
  (SearchScored /\ useReranker) =>
    LET pool == RerankPool
        cand == CandidatesReturned
        taken == {cand[j].chunk.id : j \in 1..Len(cand)}
        left == {i \in 1..Len(pool) : pool[i].chunk.id \notin taken}
    IN (Len(pool) >= 3 /\ Len(cand) >= 2 /\ left # {}) =>
         LET top == CHOOSE i \in left : \A j \in left : i <= j
             more == RSub(Clamp(similarity(cand[2], cand[1])),
                          Clamp(similarity(pool[top], cand[1])))
         IN RGe(RMul(R(7, 10), RSub(cand[2].score, pool[top].score)),
                RMul(R(3, 10), more))

\* the reranker selected second a candidate scoring lower than one it left,
\* which is more similar to the first selected
C24_Witness ==
  /\ SearchScored
  /\ useReranker
  /\ Len(RerankPool) >= 3
  /\ Len(CandidatesReturned) = 2
  /\ \E i \in 1..Len(RerankPool) :
       /\ RerankPool[i].chunk.id \notin {CandidatesReturned[j].chunk.id : j \in 1..2}
       /\ RGt(RerankPool[i].score, CandidatesReturned[2].score)
       /\ RGt(similarity(RerankPool[i], CandidatesReturned[1]),
              similarity(CandidatesReturned[2], CandidatesReturned[1]))

\* the surviving tokens of the query and the lower-cased content of chunk i
TermsOfQuery == queryTermsOf(query)
ContentLower(i) == toLowerCase(index.chunks[i].content)

\* C25 as stated: the lexical score search computes for a chunk is 0 when no
\* token of the query survives, otherwise the number of distinct surviving
\* tokens found in the content over the number of surviving tokens, and it
\* is in [0,1].
C25_DistinctTokensMatched ==
  SearchScored =>
    \A i \in 1..Len(index.chunks) :
      LET found == {t \in {TermsOfQuery[k] : k \in 1..Len(TermsOfQuery)} :
                      includes(ContentLower(i), t)}
          lexical == keywordScore(query, index.chunks[i].content)
      IN /\ InUnitInterval(lexical)
         /\ IF TermsOfQuery = <<>> THEN REq(lexical, Zero)
            ELSE REq(lexical, R(Cardinality(found), Len(TermsOfQuery)))

\* C25 as amended: the numerator counts every surviving token found in the
\* content, a repeated token as often as the query repeats it.
C25_EveryTokenMatched ==
  SearchScored =>
    \A i \in 1..Len(index.chunks) :
      LET found(t) == includes(ContentLower(i), t)
          lexical == keywordScore(query, index.chunks[i].content)
      IN /\ InUnitInterval(lexical)
         /\ IF TermsOfQuery = <<>> THEN REq(lexical, Zero)
            ELSE REq(lexical, R(Len(SelectSeq(TermsOfQuery, found)), Len(TermsOfQuery)))

\* a query that repeats a token was scored against a content holding it
C25_Witness ==
  /\ SearchScored
  /\ \E j, k \in 1..Len(TermsOfQuery) :
       /\ j # k
       /\ TermsOfQuery[j] = TermsOfQuery[k]
       /\ \E i \in 1..Len(index.chunks) : includes(ContentLower(i), TermsOfQuery[j])

\* the embedding the worker returned for the query
QueryEmbedding == calls[scall].result[1]

SquaredLength(v) == SumTo([i \in 1..Len(v) |-> v[i] * v[i]], Len(v))

\* the semantic part of the claim: the cosine, 0 without a chunk embedding or
\* with a vector of magnitude 0
Semantic(chunk) ==
  IF \/ chunk.embedding = NoEmbedding
     \/ SquaredLength(chunk.embedding) = 0
     \/ SquaredLength(QueryEmbedding) = 0
    THEN Zero
    ELSE R(dotProduct(QueryEmbedding, chunk.embedding),
           Sqrt(SquaredLength(QueryEmbedding)) * Sqrt(SquaredLength(chunk.embedding)))

Combined(chunk) ==
  RAdd(RMul(R(3, 10), Semantic(chunk)), RMul(R(7, 10), keywordScore(query, chunk.content)))

\* C26: every chunk search scores, and so every result it returns, has the
\* score 0.3 * semantic + 0.7 * lexical, the semantic part being the cosine
\* of the query and chunk embeddings, or 0 when the chunk has no embedding or
\* one of the two vectors has magnitude 0.
C26_CombinedScore ==
  SearchScored =>
    LET all == allResultsOf(query, index, QueryEmbedding)
    IN /\ Len(all) = Len(index.chunks)
       /\ \A i \in 1..Len(all) : REq(all[i].score, Combined(all[i].chunk))
       /\ \A i \in 1..Len(results) : REq(results[i].score, Combined(results[i].chunk))

\* a chunk whose embedding has magnitude 0 was scored next to a returned one
\* with both a semantic and a lexical part
C26_Witness ==
  /\ SearchScored
  /\ \E i \in 1..Len(index.chunks) :
       /\ index.chunks[i].embedding # NoEmbedding
       /\ SquaredLength(index.chunks[i].embedding) = 0
  /\ \E i \in 1..Len(results) :
       /\ RGt(Semantic(results[i].chunk), Zero)
       /\ RGt(keywordScore(query, results[i].chunk.content), Zero)

\* C27: when a candidate scores at least the threshold, search returns a
\* non-empty list that holds the highest-scoring such candidate.
C27_BestPassingIsReturned ==
  SearchScored =>
    LET cand == CandidatesReturned
        passing == {i \in 1..Len(cand) : RGe(cand[i].score, threshold)}
        best == CHOOSE i \in passing : \A j \in passing : RGe(cand[i].score, cand[j].score)
    IN passing # {} =>
         /\ results # <<>>
         /\ \E k \in 1..Len(results) : REq(results[k].score, cand[best].score)

\* C28: the first element of a returned list has the greatest score of the
\* list, with and without the reranker, and the first candidate, whose score
\* the relative cutoff is taken against, has the greatest score of all the
\* scored chunks.
C28_FirstIsBest ==
  (SearchScored /\ results # <<>>) =>
    LET all == allResultsOf(query, index, QueryEmbedding)
        cand == CandidatesReturned
    IN /\ \A i \in 1..Len(results) : RGe(results[1].score, results[i].score)
       /\ Len(cand) > 0
       /\ results[1] = Head(cand)
       /\ \A i \in 1..Len(all) : RGe(results[1].score, all[i].score)

\* the reranker returned a list that is not in descending order
C28_Witness ==
  /\ SearchScored
  /\ useReranker
  /\ Len(results) >= 3
  /\ RLt(results[2].score, results[3].score)

\* C29: when getEmbeddings rejects for a document of the rebuild, first or
\* later, the rebuild ends in an error and the step leaves the stored index,
\* and the index the manager shows, as they were; only a completed rebuild
\* or clearing writes the store.
C29_FailedBuildLeavesIndex ==
  /\ [][(bpc = "awaiting" /\ calls[bcall].status = "rejected" /\ bpc' # bpc) =>
          (/\ bpc' = "idle"
           /\ bout' = "error"
           /\ stored' = stored
           /\ kmIndex' = kmIndex
           /\ lastOp' = lastOp)]_vars
  /\ [][stored' # stored =>
          \/ lastOp' = "cleared"
          \/ /\ bpc = "awaiting"
             /\ calls[bcall].status = "resolved"
             /\ bi = Len(btexts)
             /\ bout' = "complete"]_vars

\* the embeddings of the second document failed after those of the first
\* had arrived, and the store still holds the earlier index
C29_Witness ==
  /\ bpc = "idle"
  /\ bout = "error"
  /\ bi = 2
  /\ calls[1].status = "resolved"
  /\ calls[2].status = "rejected"
  /\ stored = stringify(PreviousIndex)
  /\ kmIndex = PreviousIndex

\* C30: the registered message handlers are those of the calls that have
\* not yet resolved or rejected, one handler for each: a handler goes in the
\* step that settles its call, and none is left once every call has settled.
C30_HandlersOfPendingCalls ==
  /\ {l.id : l \in listeners} = {c \in CallIds : calls[c].status = "pending"}
  /\ Cardinality(listeners) = Cardinality({l.id : l \in listeners})

\* the first call was resolved after a progress message it let pass, the
\* second was rejected, and no handler is left
C30_Witness ==
  /\ calls[1].status = "resolved"
  /\ calls[1].progress > 0
  /\ calls[2].status = "rejected"
  /\ calls[2].error = "backend error"
  /\ listeners = {}

====
